---- MODULE Spec2Model ----
(***************************************************************************)
(* A model of yocto_raytrace.cpp: the BVH build and traversal, the         *)
(* geometry evaluators and the progressive sampling driver.                *)
(*                                                                         *)
(* Conventions.  C++ indices are 0-based; a TLA+ sequence s models a       *)
(* vector v with v[i] = s[i + 1].  Vectors are tuples <<x, y, z>> of       *)
(* integers.  A bvh_primitive's center is stored doubled (min + max), so   *)
(* that the halving of center() never leaves the integers; every           *)
(* comparison the code makes on centers is scaled accordingly.  Ray        *)
(* parameters (tmin, tmax, distance) are stored multiplied by dot(d, d).   *)
(***************************************************************************)
EXTENDS Integers, Sequences, FiniteSets, TLC

VARIABLES
  \* BVH build and queries
  level,      \* "shape": a shape's tree and queries; "scene": the scene's
  shape_points,  \* shape->points of the shape being built
  scene_objects, \* scene->objects
  build,      \* build_bvh's locals: nodes, primitives, queue
  tree,       \* the finished bvh_tree: nodes and the permutation array
  query,      \* the arguments of the running query: ray_, find_any
  walk,       \* the locals of the running query
  bpc         \* "init", "build", "ready", "walk", "done"


VARIABLES
  \* the sampling driver
  params,     \* trace_params: shader, noparallel, clamp
  nthreads,   \* what std::thread::hardware_concurrency() reports
  pixels,     \* state->pixels: rng, accumulated, samples of each pixel
  render,     \* state->render
  next_idx,   \* parallel_for's shared atomic counter
  workers,    \* the position of each worker of parallel_for: pc, i, j
  seq_ij,     \* the position <<i, j>> of the sequential loops
  stop,       \* the caller's stop flag: "null", or the flag's value
  calls,      \* the number of trace_samples calls made
  tpc,        \* "idle", "seq", "par", "returned", "error"
  \* history of the running call, for stating the properties
  entry,      \* pixels, render and the stop flag as they were at the call
  claimed,    \* for each row, the workers whose fetch_add returned it
  touched     \* for each pixel, the workers that ran func on it

VARIABLES
  \* the clamp of one shader result
  c_color,    \* the shader's result
  c_clamp,    \* params.clamp
  c_pixel,    \* the pixel's accumulated and samples
  cpc         \* "init", "done"

VARIABLES
  \* the geometry evaluators
  e_shape,    \* the shape: index lists and attribute array sizes
  e_element,  \* the element evaluated
  e_reads,    \* the array reads of the evaluation, in order
  epc         \* "init", "position", "normal", "texcoord"

VARIABLES
  \* one texture: the setters and the sampler
  tex,        \* the texture's four encoding arrays
  last_set,   \* the encoding of the latest set_texture with a non-empty image
  replaced,   \* whether a set_texture emptied a non-empty array of another encoding
  t_result    \* what the latest eval_texture did, "none" before any

VARIABLES
  \* one camera path of trace_raytrace
  p_bounces,  \* params.bounces
  p_stack,    \* the nested invocations of trace_raytrace, the outermost first
  ppc         \* "run", "returned"

VARIABLES
  \* one call of split_middle
  sp_primitives, \* the primitives handed to it; the range is the whole list
  sp_split,      \* what it returned
  spc            \* "init", "done"

VARIABLES
  \* one query on the tree of a shape whose points lie along the x axis
  ch_tree,    \* the shape's tree
  ch_query,   \* the ray and find_any
  ch_walk,    \* the traversal's locals, node_stack among them
  chpc        \* "walk", "done", "undefined"

bvhVars == <<level, shape_points, scene_objects, build, tree, query, walk, bpc>>
traceVars == <<params, nthreads, pixels, render, next_idx, workers, seq_ij, stop,
               calls, tpc, entry, claimed, touched>>
clampVars == <<c_color, c_clamp, c_pixel, cpc>>
evalVars == <<e_shape, e_element, e_reads, epc>>
texVars == <<tex, last_set, replaced, t_result>>
pathVars == <<p_bounces, p_stack, ppc>>
splitVars == <<sp_primitives, sp_split, spc>>
stackVars == <<ch_tree, ch_query, ch_walk, chpc>>
moreVars == <<texVars, pathVars, splitVars, stackVars>>
vars == <<bvhVars, traceVars, clampVars, evalVars, moreVars>>

\* ------------------------------------------------------------------ bounds

\* Longest point list of the shape whose tree is built step by step.
MaxPrims == 6
\* Largest number of object instances of the scene.
MaxObjs == 5
\* Image size: state->render.size()
ImgW == 2
ImgH == 2
\* Largest worker pool reported by the hardware concurrency
MaxThreads == 2
\* Largest number of trace_samples calls on one render state
MaxCalls == 2
\* The random number generator's states are 0 .. RngMod - 1
RngMod == 5
\* Largest value of a radiance channel of a shader result, in half units
MaxChan == 4
\* Largest number of elements and of vertices of an evaluated shape
MaxElems == 2
MaxVerts == 3

\* ------------------------------------------------------------- vector math

Min(a, b) == IF a < b THEN a ELSE b
Max(a, b) == IF a > b THEN a ELSE b
SetMin(S) == CHOOSE x \in S : \A y \in S : x <= y
SetMax(S) == CHOOSE x \in S : \A y \in S : x >= y

Axes == 1 .. 3
vadd(a, b) == [k \in Axes |-> a[k] + b[k]]
vsub(a, b) == [k \in Axes |-> a[k] - b[k]]
vadds(a, s) == [k \in Axes |-> a[k] + s]
dot(a, b) == a[1] * b[1] + a[2] * b[2] + a[3] * b[3]

flt_max == 1000
zero3f == <<0, 0, 0>>
invalidb3f ==
  [min |-> <<flt_max, flt_max, flt_max>>, max |-> <<-flt_max, -flt_max, -flt_max>>]

\* merge(bbox, bbox) and merge(bbox, point)
merge(a, b) ==
  [min |-> [k \in Axes |-> Min(a.min[k], b.min[k])],
   max |-> [k \in Axes |-> Max(a.max[k], b.max[k])]]
merge_point(a, p) == merge(a, [min |-> p, max |-> p])

\* merge folded over a set of boxes, starting from invalidb3f
merge_all(boxes) ==
  [min |-> [k \in Axes |-> SetMin({flt_max} \cup {b.min[k] : b \in boxes})],
   max |-> [k \in Axes |-> SetMax({-flt_max} \cup {b.max[k] : b \in boxes})]]

\* twice center(bbox)
center2(b) == vadd(b.min, b.max)

point_bounds(p, r) == [min |-> vadds(p, -r), max |-> vadds(p, r)]

\* transform_point and transform_bbox for a frame that is a translation
transform_point(frame, p) == vadd(p, frame)
transform_bbox(frame, b) ==
  LET corners == {<<x, y, z>> : x \in {b.min[1], b.max[1]},
                                y \in {b.min[2], b.max[2]},
                                z \in {b.min[3], b.max[3]}}
  IN merge_all({[min |-> transform_point(frame, c),
                 max |-> transform_point(frame, c)] : c \in corners})
inverse(frame) == [k \in Axes |-> -frame[k]]
transform_ray(frame, ray) == [ray EXCEPT !.o = transform_point(frame, ray.o)]

\* ------------------------------------------------------ ray/primitive tests

\* intersect_bbox: the slab test, t scaled by dot(d, d)
slab_lo(ray, b, k) ==
  LET dd == dot(ray.d, ray.d)
      a == (b.min[k] - ray.o[k]) * ray.d[k] * dd
      c == (b.max[k] - ray.o[k]) * ray.d[k] * dd
  IN IF ray.d[k] = 0
     THEN (IF Min(b.min[k], b.max[k]) <= ray.o[k] /\ ray.o[k] <= Max(b.min[k], b.max[k])
           THEN -flt_max * flt_max ELSE flt_max * flt_max)
     ELSE Min(a, c)
slab_hi(ray, b, k) ==
  LET dd == dot(ray.d, ray.d)
      a == (b.min[k] - ray.o[k]) * ray.d[k] * dd
      c == (b.max[k] - ray.o[k]) * ray.d[k] * dd
  IN IF ray.d[k] = 0 THEN flt_max * flt_max ELSE Max(a, c)
intersect_bbox(ray, b) ==
  LET t0 == SetMax({slab_lo(ray, b, k) : k \in Axes} \cup {ray.tmin})
      t1 == SetMin({slab_hi(ray, b, k) : k \in Axes} \cup {ray.tmax})
  IN t0 <= t1

\* intersect_point: [hit, dist]; dist is written only on a hit
intersect_point(ray, p, r) ==
  LET w == vsub(p, ray.o)
      dd == dot(ray.d, ray.d)
      t == dot(w, ray.d)
  IN IF t < ray.tmin \/ t > ray.tmax THEN [hit |-> FALSE, dist |-> 0]
     ELSE IF dd * dot(w, w) - t * t > dd * r * r THEN [hit |-> FALSE, dist |-> 0]
     ELSE [hit |-> TRUE, dist |-> t]

\* ------------------------------------------------------------ shape data

\* The vertex attribute arrays of the shapes (positions, radius), indexed
\* 0-based by the entries of a shape's point list.
Positions == << <<0, 0, 0>>, <<4, 0, 0>>, <<2, 3, 0>> >>
Radius == <<1, 1, 3>>
Vertices == 0 .. Len(Positions) - 1

\* Sequences over S of length at most n
SeqUpTo(S, n) == UNION {[1 .. m -> S] : m \in 0 .. n}

\* ------------------------------------------------------------- BVH build

\* a default-constructed bvh_node
bvh_node == [bbox |-> invalidb3f, start |-> 0, num |-> 0, axis |-> 0, internal |-> FALSE]

\* a leaf capacity of one primitive more
bvh_max_prims_larger == 4 + 1

\* Maximum number of primitives per BVH node.
bvh_max_prims == 4

\* the lambda of split_middle: primitive.center[axis] < middle, where
\* msum is twice the middle of the (doubled) centers
split_pred(primitive, axis, msum) == 2 * primitive.center[axis + 1] < msum

\* a swap that loses an element: the first is overwritten, the second kept
swap_overwrite(s, i, j) == [s EXCEPT ![i + 1] = s[j + 1]]
swap(s, i, j) == [s EXCEPT ![i + 1] = s[j + 1], ![j + 1] = s[i + 1]]

\* std::partition over [first, last): returns the rearranged sequence and
\* the partition point.  The order within the two halves is the library's;
\* this is the algorithm for bidirectional iterators, which the pointers
\* handed to it select: scan up to the first element failing the predicate,
\* scan down to the last one passing it, swap, repeat.
RECURSIVE partition(_, _, _, _, _)
partition(s, first, last, axis, msum) ==
  LET stopf == {i \in first .. last : i = last \/ ~split_pred(s[i + 1], axis, msum)}
      f == SetMin(stopf)
  IN IF f = last THEN [seq |-> s, mid |-> f]
     ELSE LET stopl == {i \in f .. last - 1 : i = f \/ split_pred(s[i + 1], axis, msum)}
              l == SetMax(stopl)
          IN IF l = f THEN [seq |-> s, mid |-> f]
             ELSE partition(swap(s, f, l), f + 1, l, axis, msum)

\* the axis choice as an if / else if chain: the first test that holds wins
split_axis_first(csize) ==
  IF csize[1] >= csize[2] /\ csize[1] >= csize[3] THEN 0
  ELSE IF csize[2] >= csize[1] /\ csize[2] >= csize[3] THEN 1
  ELSE 2

\* the axis split_middle selects for a box of centers of extent csize
split_axis(csize) ==
  LET a1 == IF csize[1] >= csize[2] /\ csize[1] >= csize[3] THEN 0 ELSE 0
      a2 == IF csize[2] >= csize[1] /\ csize[2] >= csize[3] THEN 1 ELSE a1
      a3 == IF csize[3] >= csize[1] /\ csize[3] >= csize[2] THEN 2 ELSE a2
  IN a3

\* the split with neither early return nor fallback: the partition point as it is
split_middle_no_fallback(primitives, start, end) ==
  LET cs == {primitives[i + 1].center : i \in start .. end - 1}
      cmin == [k \in Axes |-> SetMin({c[k] : c \in cs})]
      cmax == [k \in Axes |-> SetMax({c[k] : c \in cs})]
      axis == split_axis(vsub(cmax, cmin))
      part == partition(primitives, start, end, axis, cmin[axis + 1] + cmax[axis + 1])
  IN [primitives |-> part.seq, mid |-> part.mid, axis |-> axis]

\* Splits a BVH node. Returns the rearranged primitives, split position and axis.
split_middle(primitives, start, end) ==
  LET mid0 == (start + end) \div 2
      cs == {primitives[i + 1].center : i \in start .. end - 1}
      cmin == [k \in Axes |-> SetMin({c[k] : c \in cs})]
      cmax == [k \in Axes |-> SetMax({c[k] : c \in cs})]
      csize == vsub(cmax, cmin)
      axis == split_axis(csize)
      part == partition(primitives, start, end, axis, cmin[axis + 1] + cmax[axis + 1])
  IN IF csize = zero3f THEN [primitives |-> primitives, mid |-> mid0, axis |-> 0]
     ELSE IF part.mid = start \/ part.mid = end
          THEN [primitives |-> part.seq, mid |-> (start + end) \div 2, axis |-> axis]
          ELSE [primitives |-> part.seq, mid |-> part.mid, axis |-> axis]

\* the bounds with the last primitive of the range left out
range_bbox_short(primitives, start, end) ==
  merge_all({primitives[i + 1].bbox : i \in start .. end - 2})

\* the bounds of the primitives of [start, end)
range_bbox(primitives, start, end) ==
  merge_all({primitives[i + 1].bbox : i \in start .. end - 1})

\* One iteration of build_bvh's loop over the work queue.
build_bvh_step(b) ==
  LET next == Head(b.queue)
      nodeid == next[1]
      start == next[2]
      end == next[3]
      bbox == range_bbox(b.primitives, start, end)
  IN IF end - start > bvh_max_prims
     THEN LET sp == split_middle(b.primitives, start, end)
              first == Len(b.nodes)
              node == [bbox |-> bbox, start |-> first, num |-> 2,
                       axis |-> sp.axis, internal |-> TRUE]
          IN [nodes |-> [b.nodes EXCEPT ![nodeid + 1] = node] \o <<bvh_node, bvh_node>>,
              primitives |-> sp.primitives,
              queue |-> Tail(b.queue) \o
                        << <<first, start, sp.mid>>, <<first + 1, sp.mid, end>> >>]
     ELSE [nodes |-> [b.nodes EXCEPT ![nodeid + 1] =
                        [@ EXCEPT !.bbox = bbox, !.internal = FALSE,
                                  !.num = end - start, !.start = start]],
           primitives |-> b.primitives,
           queue |-> Tail(b.queue)]

\* build_bvh before its loop: the node array holds the root, the queue its range
build_bvh_begin(primitives) ==
  [nodes |-> <<bvh_node>>, primitives |-> primitives,
   queue |-> << <<0, 0, Len(primitives)>> >>]

\* build_bvh run to the end
RECURSIVE build_bvh_run(_)
build_bvh_run(b) == IF b.queue = <<>> THEN b ELSE build_bvh_run(build_bvh_step(b))

\* init_bvh(shape): the bvh_primitive list of a shape's points
shape_primitives(points) ==
  [i \in 1 .. Len(points) |->
     LET p == points[i]
         bb == point_bounds(Positions[p + 1], Radius[p + 1])
     IN [bbox |-> bb, center |-> center2(bb), primitive |-> i - 1]]

\* init_bvh(shape): the tree, once the permutation array is set
bvh_tree(b) ==
  [nodes |-> b.nodes, primitives |-> [i \in 1 .. Len(b.primitives) |-> b.primitives[i].primitive]]
init_bvh_shape(points) == bvh_tree(build_bvh_run(build_bvh_begin(shape_primitives(points))))

\* --------------------------------------------------------- BVH traversal

\* the query rays: origin, direction, [tmin, tmax]
Rays ==
  { [o |-> <<-3, 0, 0>>, d |-> <<1, 0, 0>>, tmin |-> 0, tmax |-> flt_max],
    [o |-> <<9, 0, 0>>, d |-> <<-1, 0, 0>>, tmin |-> 0, tmax |-> flt_max],
    [o |-> <<-3, 0, 0>>, d |-> <<1, 0, 0>>, tmin |-> 4, tmax |-> 6],
    [o |-> <<-2, -2, 0>>, d |-> <<1, 1, 0>>, tmin |-> 0, tmax |-> flt_max],
    [o |-> <<0, 9, 0>>, d |-> <<0, -1, 0>>, tmin |-> 0, tmax |-> flt_max] }

ray_dsign(ray) == [k \in Axes |-> IF ray.d[k] < 0 THEN 1 ELSE 0]

\* the two pushes of an internal node, ordered by the ray's sign on the axis
push_children(stack, node, ray) ==
  IF ray_dsign(ray)[node.axis + 1] = 1
  THEN stack \o <<node.start + 0, node.start + 1>>
  ELSE stack \o <<node.start + 1, node.start + 0>>

\* a hit recorded without shrinking ray.tmax
record_hit_keeps_tmax(w, prim, dist) ==
  [w EXCEPT !.hit = TRUE, !.element = prim, !.distance = dist]

\* what a primitive hit at distance dist on element prim does to the query
record_hit(w, prim, dist) ==
  [w EXCEPT !.hit = TRUE, !.element = prim, !.distance = dist, !.ray.tmax = dist]

\* a primitive or instance test is made: late_tests counts the tests made
\* when the query already has a hit (the code keeps no such count)
count_test(w) == [w EXCEPT !.late_tests = @ + IF w.hit THEN 1 ELSE 0]
\* a node is popped: late_nodes counts the nodes popped when the query
\* already has a hit
count_node(w) == [w EXCEPT !.late_nodes = @ + IF w.hit THEN 1 ELSE 0]

\* the loop over the points of a leaf, from idx to last - 1
RECURSIVE leaf_points(_, _, _, _, _)
leaf_points(points, bvh, w, idx, last) ==
  IF idx >= last THEN w
  ELSE LET prim == bvh.primitives[idx + 1]
           p == points[prim + 1]
           r == intersect_point(w.ray, Positions[p + 1], Radius[p + 1])
       IN leaf_points(points, bvh,
                      IF r.hit THEN record_hit(count_test(w), prim, r.dist)
                      ELSE count_test(w),
                      idx + 1, last)

\* intersect_shape_bvh up to its loop; element and distance are the caller's
shape_walk_begin(bvh, ray, element, distance) ==
  [node_stack |-> IF bvh.nodes = <<>> THEN <<>> ELSE <<0>>,
   ray |-> ray, hit |-> FALSE, element |-> element, object |-> -1,
   distance |-> distance, done |-> bvh.nodes = <<>>,
   late_tests |-> 0, late_nodes |-> 0]

\* the walk without the early exit: it returns when the stack is empty
walk_returns_at_end(w, find_any) == w.node_stack = <<>>

\* whether the walk returns after an iteration that was not cut short
walk_returns(w, find_any) == (find_any /\ w.hit) \/ w.node_stack = <<>>

\* one iteration of intersect_shape_bvh's loop
shape_walk_step(points, bvh, w, find_any) ==
  LET n == Len(w.node_stack)
      rest == SubSeq(w.node_stack, 1, n - 1)
      node == bvh.nodes[w.node_stack[n] + 1]
      w0 == [count_node(w) EXCEPT !.node_stack = rest]
  IN IF ~intersect_bbox(w.ray, node.bbox)
     THEN [w0 EXCEPT !.done = (rest = <<>>)]
     ELSE LET w1 == IF node.internal
                    THEN [w0 EXCEPT !.node_stack = push_children(rest, node, w.ray)]
                    ELSE IF points # <<>>
                         THEN leaf_points(points, bvh, w0, node.start, node.start + node.num)
                         ELSE w0
          IN [w1 EXCEPT !.done = walk_returns(w1, find_any)]

RECURSIVE shape_walk_run(_, _, _, _)
shape_walk_run(points, bvh, w, find_any) ==
  IF w.done THEN w ELSE shape_walk_run(points, bvh, shape_walk_step(points, bvh, w, find_any), find_any)

intersect_shape_bvh(points, bvh, ray, element, distance, find_any) ==
  shape_walk_run(points, bvh, shape_walk_begin(bvh, ray, element, distance), find_any)

\* ------------------------------------------------------------ scene data

\* the point lists of the scene's shapes, and their trees as init_bvh(scene)
\* builds them before it builds the scene's own
SceneShapes == << <<0>>, <<0, 1, 2, 2, 1, 0>>, <<>> >>
SceneShapeBvh == [s \in 1 .. Len(SceneShapes) |-> init_bvh_shape(SceneShapes[s])]

\* the objects a scene is made of: a shape (0-based) and a frame (a translation)
ObjectKinds ==
  { [shape |-> 0, frame |-> <<3, 0, 0>>],
    [shape |-> 1, frame |-> <<0, 1, 0>>],
    [shape |-> 2, frame |-> <<0, 0, 0>>] }

\* init_bvh(scene): the bvh_primitive list of the objects
scene_primitives(objects) ==
  [i \in 1 .. Len(objects) |->
     LET object == objects[i]
         sbvh == SceneShapeBvh[object.shape + 1]
         bb == IF sbvh.nodes = <<>> THEN invalidb3f
               ELSE transform_bbox(object.frame, sbvh.nodes[1].bbox)
     IN [bbox |-> bb, center |-> center2(bb), primitive |-> i - 1]]

\* what an instance hit does to the scene query
record_object_hit(w, prim, r) ==
  [w EXCEPT !.hit = TRUE, !.object = prim, !.element = r.element,
            !.distance = r.distance, !.ray.tmax = r.distance]

\* the loop over the objects of a scene leaf
RECURSIVE leaf_objects(_, _, _, _, _, _)
leaf_objects(objects, bvh, w, idx, last, find_any) ==
  IF idx >= last THEN w
  ELSE LET prim == bvh.primitives[idx + 1]
           object_ == objects[prim + 1]
           inv_ray == transform_ray(inverse(object_.frame), w.ray)
           r == intersect_shape_bvh(SceneShapes[object_.shape + 1],
                                    SceneShapeBvh[object_.shape + 1], inv_ray,
                                    w.element, w.distance, find_any)
           wt == [count_test(w) EXCEPT !.late_tests = @ + r.late_tests]
       IN leaf_objects(objects, bvh,
                       IF r.hit THEN record_object_hit(wt, prim, r) ELSE wt,
                       idx + 1, last, find_any)

\* one iteration of intersect_scene_bvh's loop
scene_walk_step(objects, bvh, w, find_any) ==
  LET n == Len(w.node_stack)
      rest == SubSeq(w.node_stack, 1, n - 1)
      node == bvh.nodes[w.node_stack[n] + 1]
      w0 == [count_node(w) EXCEPT !.node_stack = rest]
  IN IF ~intersect_bbox(w.ray, node.bbox)
     THEN [w0 EXCEPT !.done = (rest = <<>>)]
     ELSE LET w1 == IF node.internal
                    THEN [w0 EXCEPT !.node_stack = push_children(rest, node, w.ray)]
                    ELSE leaf_objects(objects, bvh, w0, node.start,
                                      node.start + node.num, find_any)
          IN [w1 EXCEPT !.done = walk_returns(w1, find_any)]

\* ------------------------------------------------------ sampling driver

Shaders == {"raytrace", "eyelight", "normal", "texcoord", "color"}
\* the values params.shader can hold: the five enumerators and any other
ShaderSelectors == Shaders \cup {"invalid"}
\* params.clamp, in half units (the default is 100)
Clamps == {1, 3, 200}

Rows == 0 .. ImgH - 1
Cols == 0 .. ImgW - 1
Pixels == Cols \X Rows
Threads == 1 .. MaxThreads
Chan == 1 .. 4

\* Colors are <<r, g, b, coverage>> in half units (coverage 1 is 2); what is
\* accumulated is in units of 1 / AccScale of that, so that the division of
\* the clamp is exact for every maximum channel up to MaxChan + 1.
AccScale == 3 * 4 * 5
zero4f == <<0, 0, 0, 0>>
max4(color) == SetMax({color[k] : k \in Chan})

\* the random number generator: one draw, two draws
rng_next(rng) == (3 * rng + 1) % RngMod
rand1f(rng) == [value |-> rng_next(rng), rng |-> rng_next(rng)]
rand2f(rng) ==
  LET a == rand1f(rng)
      b == rand1f(a.rng)
  IN [value |-> <<a.value, b.value>>, rng |-> b.rng]

\* a lookup whose default case falls back to the path tracer
get_trace_shader_func_default(prm) ==
  CASE prm.shader = "eyelight" -> "trace_eyelight"
    [] prm.shader = "normal" -> "trace_normal"
    [] prm.shader = "texcoord" -> "trace_texcoord"
    [] prm.shader = "color" -> "trace_color"
    [] OTHER -> "trace_raytrace"

\* get_trace_shader_func: the shader selected, or "throw"
get_trace_shader_func(prm) ==
  CASE prm.shader = "raytrace" -> "trace_raytrace"
    [] prm.shader = "eyelight" -> "trace_eyelight"
    [] prm.shader = "normal" -> "trace_normal"
    [] prm.shader = "texcoord" -> "trace_texcoord"
    [] prm.shader = "color" -> "trace_color"
    [] OTHER -> "throw"

\* A shader call for the camera ray of pixel (i, j) jittered by puv: the
\* color returned (coverage 1) and the generator it leaves.  The scene is a
\* fixed function of the ray; only trace_raytrace draws random numbers.
shader_call(shader, i, j, puv, rng) ==
  LET c1 == (i + puv[1]) % (MaxChan + 1)
      c2 == (j + puv[2]) % (MaxChan + 1)
      c3 == (i + j + puv[1] + puv[2]) % (MaxChan + 1)
      r == rand1f(rng)
  IN CASE shader = "trace_raytrace" ->
            [color |-> <<(c1 + r.value) % (MaxChan + 1), c2, c3, 2>>, rng |-> r.rng]
       [] shader = "trace_eyelight" -> [color |-> <<c1, c1, c1, 2>>, rng |-> rng]
       [] shader = "trace_normal" -> [color |-> <<c2, c3, c1, 2>>, rng |-> rng]
       [] shader = "trace_texcoord" -> [color |-> <<c1, c2, 0, 2>>, rng |-> rng]
       [] shader = "trace_color" -> [color |-> <<c3, c2, c1, 2>>, rng |-> rng]

\* clamp to max value: if (max(color) > clamp) color = color * (clamp / max(color))
clamp_color(color, clamp) ==
  IF max4(color) > clamp
  THEN [k \in Chan |-> (AccScale * color[k] * clamp) \div max4(color)]
  ELSE [k \in Chan |-> AccScale * color[k]]

vadd4(a, b) == [k \in Chan |-> a[k] + b[k]]

\* update state accumulation, samples and render: accumulated / samples is
\* kept as the fraction num / den
accumulate(pixel, color, rng) ==
  [rng |-> rng, accumulated |-> vadd4(pixel.accumulated, color),
   samples |-> pixel.samples + 1]
render_value(pixel) == [num |-> pixel.accumulated, den |-> pixel.samples]

\* the body of the sequential loops of trace_samples for pixel (i, j)
sample_pixel_seq(st, prm, shader, i, j) ==
  LET pixel == st.pixels[<<i, j>>]
      puv == rand2f(pixel.rng)
      res == shader_call(shader, i, j, puv.value, puv.rng)
      color == clamp_color(res.color, prm.clamp)
      updated == accumulate(pixel, color, res.rng)
  IN [pixels |-> [st.pixels EXCEPT ![<<i, j>>] = updated],
      render |-> [st.render EXCEPT ![<<i, j>>] = render_value(updated)]]

\* the lambda trace_samples hands to parallel_for, for pixel ij
sample_pixel_par(st, prm, shader, ij) ==
  LET pixel == st.pixels[<<ij[1], ij[2]>>]
      puv == rand2f(pixel.rng)
      res == shader_call(shader, ij[1], ij[2], puv.value, puv.rng)
      color == clamp_color(res.color, prm.clamp)
      updated == accumulate(pixel, color, res.rng)
  IN [pixels |-> [st.pixels EXCEPT ![ij] = updated],
      render |-> [st.render EXCEPT ![ij] = render_value(updated)]]

\* init_state: every pixel cleared, its generator seeded by its scan order
init_state ==
  [pixels |-> [ij \in Pixels |->
                 [rng |-> (ij[2] * ImgW + ij[1]) % RngMod,
                  accumulated |-> zero4f, samples |-> 0]],
   render |-> [ij \in Pixels |-> [num |-> zero4f, den |-> 1]]]

\* a plain load where the fetch-and-increment should be
fetch_add_load(counter) == [value |-> counter, next |-> counter]

\* next_idx.fetch_add(1): the value returned and the value left
fetch_add(counter) == [value |-> counter, next |-> counter + 1]

worker_off == [pc |-> "off", i |-> 0, j |-> 0]

\* ------------------------------------------------- the parts at rest

TraceIdle ==
  /\ params = [shader |-> "color", noparallel |-> TRUE, clamp |-> 200]
  /\ nthreads = 0
  /\ pixels = init_state.pixels /\ render = init_state.render
  /\ next_idx = 0 /\ workers = [w \in Threads |-> worker_off] /\ seq_ij = <<0, 0>>
  /\ stop = "null" /\ calls = 0 /\ tpc = "off"
  /\ entry = [pixels |-> init_state.pixels, render |-> init_state.render, stop |-> "null"]
  /\ claimed = [r \in Rows |-> {}] /\ touched = [ij \in Pixels |-> {}]

ClampIdle ==
  /\ c_color = zero4f /\ c_clamp = 0
  /\ c_pixel = [rng |-> 0, accumulated |-> zero4f, samples |-> 0]
  /\ cpc = "off"

no_shape == [points |-> <<>>, lines |-> <<>>, triangles |-> <<>>,
             positions |-> 0, normals |-> 0, texcoords |-> 0]
EvalIdle == e_shape = no_shape /\ e_element = 0 /\ e_reads = <<>> /\ epc = "off"

\* the texture add_texture makes: texture{}, each array an image of size 0 x 0
empty_image == [size |-> <<0, 0>>]
new_texture == [colorf |-> empty_image, colorb |-> empty_image,
                scalarf |-> empty_image, scalarb |-> empty_image]
\* the reference of a texel that no array holds, and no eval_texture call yet
no_texel == [array |-> "none", ij |-> <<0, 0>>, decode |-> "none"]
no_result == [called |-> FALSE, null |-> FALSE, size |-> <<0, 0>>, modzero |-> FALSE,
              returned |-> FALSE, blend |-> <<>>]
TexIdle ==
  /\ tex = new_texture /\ last_set = "none" /\ replaced = FALSE
  /\ t_result = no_result

PathIdle == p_bounces = 0 /\ p_stack = <<>> /\ ppc = "off"

no_split == [primitives |-> <<>>, mid |-> 0, axis |-> 0]
SplitIdle == sp_primitives = <<>> /\ sp_split = no_split /\ spc = "off"

no_build == [nodes |-> <<>>, primitives |-> <<>>, queue |-> <<>>]
no_tree == [nodes |-> <<>>, primitives |-> <<>>]
no_query == [ray |-> [o |-> zero3f, d |-> zero3f, tmin |-> 0, tmax |-> 0], find_any |-> FALSE]
no_walk == shape_walk_begin(no_tree, no_query.ray, -1, flt_max)

StackIdle == ch_tree = no_tree /\ ch_query = no_query /\ ch_walk = no_walk /\ chpc = "off"

MoreIdle == TexIdle /\ PathIdle /\ SplitIdle /\ StackIdle

\* ------------------------------------------- BVH build and query: actions

BvhIdle ==
  /\ level = "none" /\ shape_points = <<>> /\ scene_objects = <<>>
  /\ build = no_build /\ tree = no_tree /\ query = no_query /\ walk = no_walk
  /\ bpc = "off"

InitBvh ==
  /\ TraceIdle /\ ClampIdle /\ EvalIdle /\ MoreIdle
  /\ \/ level = "shape" /\ shape_points \in SeqUpTo(Vertices, MaxPrims) /\ scene_objects = <<>>
     \/ level = "scene" /\ shape_points = <<>> /\ scene_objects \in SeqUpTo(ObjectKinds, MaxObjs)
  /\ build = no_build /\ tree = no_tree /\ query = no_query /\ walk = no_walk
  /\ bpc = "init"

\* init_bvh(shape) up to build_bvh's loop
InitBvhShape ==
  /\ bpc = "init" /\ level = "shape"
  /\ build' = build_bvh_begin(shape_primitives(shape_points))
  /\ bpc' = "build"
  /\ UNCHANGED <<level, shape_points, scene_objects, tree, query, walk, traceVars, clampVars, evalVars, moreVars>>

\* init_bvh(scene) up to the loop of the scene's build_bvh
InitBvhScene ==
  /\ bpc = "init" /\ level = "scene"
  /\ build' = build_bvh_begin(scene_primitives(scene_objects))
  /\ bpc' = "build"
  /\ UNCHANGED <<level, shape_points, scene_objects, tree, query, walk, traceVars, clampVars, evalVars, moreVars>>

\* build_bvh: one node taken off the queue
BuildBvhStep ==
  /\ bpc = "build" /\ build.queue # <<>>
  /\ build' = build_bvh_step(build)
  /\ UNCHANGED <<level, shape_points, scene_objects, tree, query, walk, bpc, traceVars, clampVars, evalVars, moreVars>>

\* build_bvh's loop ends; init_bvh sets the permutation array
BuildBvhEnd ==
  /\ bpc = "build" /\ build.queue = <<>>
  /\ tree' = bvh_tree(build)
  /\ bpc' = "ready"
  /\ UNCHANGED <<level, shape_points, scene_objects, build, query, walk, traceVars, clampVars, evalVars, moreVars>>

\* intersect_shape_bvh / intersect_scene_bvh called, up to the loop
IntersectBegin ==
  /\ bpc = "ready"
  /\ \E ray \in Rays, find_any \in BOOLEAN :
       /\ query' = [ray |-> ray, find_any |-> find_any]
       /\ walk' = shape_walk_begin(tree, ray, -1, flt_max)
  /\ bpc' = IF walk'.done THEN "done" ELSE "walk"
  /\ UNCHANGED <<level, shape_points, scene_objects, build, tree, traceVars, clampVars, evalVars, moreVars>>

\* intersect_shape_bvh: one node popped
ShapeWalkStep ==
  /\ bpc = "walk" /\ level = "shape"
  /\ walk' = shape_walk_step(shape_points, tree, walk, query.find_any)
  /\ bpc' = IF walk'.done THEN "done" ELSE "walk"
  /\ UNCHANGED <<level, shape_points, scene_objects, build, tree, query, traceVars, clampVars, evalVars, moreVars>>

\* intersect_scene_bvh: one node popped
SceneWalkStep ==
  /\ bpc = "walk" /\ level = "scene"
  /\ walk' = scene_walk_step(scene_objects, tree, walk, query.find_any)
  /\ bpc' = IF walk'.done THEN "done" ELSE "walk"
  /\ UNCHANGED <<level, shape_points, scene_objects, build, tree, query, traceVars, clampVars, evalVars, moreVars>>

NextBvh ==
  \/ InitBvhShape
  \/ InitBvhScene
  \/ BuildBvhStep
  \/ BuildBvhEnd
  \/ IntersectBegin
  \/ ShapeWalkStep
  \/ SceneWalkStep

SpecBvh == InitBvh /\ [][NextBvh]_vars

\* ----------------------------------------------------- BVH: the claims

\* the hits of a ray on the points of a shape, every point tested
shape_hits(points, ray) ==
  {[element |-> e, distance |-> intersect_point(ray, Positions[points[e + 1] + 1],
                                                Radius[points[e + 1] + 1]).dist] :
     e \in {e \in 0 .. Len(points) - 1 :
              intersect_point(ray, Positions[points[e + 1] + 1],
                              Radius[points[e + 1] + 1]).hit}}

\* the hits of a ray on the objects of a scene, every point of every object tested
scene_hits(objects, ray) ==
  UNION {{[object |-> o, element |-> h.element, distance |-> h.distance] :
            h \in shape_hits(SceneShapes[objects[o + 1].shape + 1],
                             transform_ray(inverse(objects[o + 1].frame), ray))} :
           o \in 0 .. Len(objects) - 1}

nearest(hits) == {h \in hits : \A g \in hits : h.distance <= g.distance}

\* C1: a nearest-hit query (find_any = false) on a shape tree and on the
\* scene tree reports a hit exactly when some primitive intersects the ray
\* within [tmin, tmax], and then returns the distance and element (and
\* object) of a primitive of minimal hit distance: the answer of testing
\* every primitive without the tree.
C1_NearestHitIsBruteForce ==
  (bpc = "done" /\ ~query.find_any) =>
     /\ level = "shape" =>
          LET hits == shape_hits(shape_points, query.ray)
          IN /\ walk.hit = (hits # {})
             /\ walk.hit => \E h \in nearest(hits) :
                              h.element = walk.element /\ h.distance = walk.distance
     /\ level = "scene" =>
          LET hits == scene_hits(scene_objects, query.ray)
          IN /\ walk.hit = (hits # {})
             /\ walk.hit => \E h \in nearest(hits) :
                              /\ h.object = walk.object /\ h.element = walk.element
                              /\ h.distance = walk.distance

\* a finished nearest-hit query on a tree with an internal node whose ray
\* hits several primitives at different distances
tree_has_internal == \E n \in 1 .. Len(tree.nodes) : tree.nodes[n].internal
C1_Witness ==
  /\ bpc = "done" /\ ~query.find_any /\ walk.hit /\ tree_has_internal
  /\ \/ level = "shape" /\ Cardinality({h.distance : h \in shape_hits(shape_points, query.ray)}) >= 3
     \/ level = "scene" /\ Cardinality({h.distance : h \in scene_hits(scene_objects, query.ray)}) >= 3

\* the number of primitives the tree is built over
num_primitives == IF level = "shape" THEN Len(shape_points) ELSE Len(scene_objects)
built == bpc \in {"ready", "walk", "done"}
leaves == {n \in 1 .. Len(tree.nodes) : ~tree.nodes[n].internal}

\* C2: after init_bvh over N >= 0 primitives the permutation array is a
\* permutation of 0..N-1, and the leaf ranges [start, start + num) are
\* pairwise disjoint and cover 0..N-1: every primitive is in exactly one leaf.
C2_PermutationAndLeafCover ==
  built =>
     /\ Len(tree.primitives) = num_primitives
     /\ {tree.primitives[i] : i \in 1 .. Len(tree.primitives)} = 0 .. num_primitives - 1
     /\ \A k \in 0 .. num_primitives - 1 :
          Cardinality({n \in leaves : tree.nodes[n].start <= k
                                      /\ k < tree.nodes[n].start + tree.nodes[n].num}) = 1
     /\ \A n \in leaves : tree.nodes[n].start >= 0
                          /\ tree.nodes[n].start + tree.nodes[n].num <= num_primitives

\* a built tree with several leaves whose permutation array is not the identity
C2_Witness ==
  /\ built /\ Cardinality(leaves) >= 3
  /\ \E i \in 1 .. Len(tree.primitives) : tree.primitives[i] # i - 1

\* the bounds of the primitive with original index e
primitive_bbox(e) ==
  IF level = "shape"
  THEN point_bounds(Positions[shape_points[e + 1] + 1], Radius[shape_points[e + 1] + 1])
  ELSE scene_primitives(scene_objects)[e + 1].bbox

\* the node indices that some internal node names as a child
child_refs(n) ==
  {m \in 1 .. Len(tree.nodes) :
     tree.nodes[m].internal /\ n - 1 \in {tree.nodes[m].start, tree.nodes[m].start + 1}}

\* C3: every node of a built tree is either internal, with exactly 2
\* children at consecutive node indices and a box that is the union of the
\* children's boxes, or a leaf of at most 4 primitives from one contiguous
\* range of the permutation array with a box that is the union of their
\* bounds; the root is node 0.
C3_NodeInvariant ==
  built =>
     /\ Len(tree.nodes) >= 1
     /\ child_refs(1) = {}
     /\ \A n \in 2 .. Len(tree.nodes) : Cardinality(child_refs(n)) = 1
     /\ \A n \in 1 .. Len(tree.nodes) :
          LET node == tree.nodes[n]
          IN IF node.internal
             THEN /\ node.num = 2
                  /\ node.start >= n
                  /\ node.start + 1 <= Len(tree.nodes) - 1
                  /\ node.bbox = merge(tree.nodes[node.start + 1].bbox,
                                       tree.nodes[node.start + 2].bbox)
             ELSE /\ node.num <= 4
                  /\ node.start >= 0 /\ node.start + node.num <= Len(tree.primitives)
                  /\ node.bbox = merge_all({primitive_bbox(tree.primitives[i + 1]) :
                                              i \in node.start .. node.start + node.num - 1})

\* a built tree of two levels of internal nodes
C3_Witness ==
  /\ built
  /\ \E n \in 2 .. Len(tree.nodes) : tree.nodes[n].internal

\* ----------------------------------------------- sampling driver: actions

InitTrace ==
  /\ BvhIdle /\ ClampIdle /\ EvalIdle /\ MoreIdle
  /\ params \in [shader : ShaderSelectors, noparallel : BOOLEAN, clamp : Clamps]
  /\ nthreads \in 0 .. MaxThreads
  /\ pixels = init_state.pixels /\ render = init_state.render
  /\ next_idx = 0 /\ workers = [w \in Threads |-> worker_off] /\ seq_ij = <<0, 0>>
  /\ stop = "null" /\ calls = 0 /\ tpc = "idle"
  /\ entry = [pixels |-> init_state.pixels, render |-> init_state.render, stop |-> "null"]
  /\ claimed = [r \in Rows |-> {}] /\ touched = [ij \in Pixels |-> {}]

\* trace_samples(state, scene, camera, params) up to its loops: the shader
\* is looked up, then the sequential loops or parallel_for's workers start.
\* flag is the caller's stop flag, which this overload never sees.
trace_samples_enter(flag) ==
  /\ tpc \in {"idle", "returned"} /\ calls < MaxCalls
  /\ calls' = calls + 1
  /\ stop' = flag
  /\ entry' = [pixels |-> pixels, render |-> render, stop |-> flag]
  /\ claimed' = [r \in Rows |-> {}] /\ touched' = [ij \in Pixels |-> {}]
  /\ IF get_trace_shader_func(params) = "throw"
     THEN tpc' = "error" /\ UNCHANGED <<next_idx, workers, seq_ij>>
     ELSE IF params.noparallel
          THEN tpc' = "seq" /\ seq_ij' = <<0, 0>> /\ UNCHANGED <<next_idx, workers>>
          ELSE /\ tpc' = "par" /\ next_idx' = 0
               /\ workers' = [w \in Threads |->
                                IF w <= nthreads THEN [pc |-> "fetch", i |-> 0, j |-> 0]
                                ELSE worker_off]
               /\ UNCHANGED seq_ij
  /\ UNCHANGED <<params, nthreads, pixels, render, bvhVars, clampVars, evalVars, moreVars>>

TraceSamples == trace_samples_enter("null")

\* trace_samples(state, scene, camera, params, stop): returns the call above
TraceSamplesStop == \E flag \in {"null", "false", "true"} : trace_samples_enter(flag)

\* the caller's side sets the stop flag while a call runs
SetStop ==
  /\ tpc \in {"seq", "par"} /\ stop = "false"
  /\ stop' = "true"
  /\ UNCHANGED <<params, nthreads, pixels, render, next_idx, workers, seq_ij, calls,
                 tpc, entry, claimed, touched, bvhVars, clampVars, evalVars, moreVars>>

\* the sequential loops: one pixel
SeqPixel ==
  /\ tpc = "seq" /\ seq_ij[2] < ImgH
  /\ LET st == sample_pixel_seq([pixels |-> pixels, render |-> render], params,
                                get_trace_shader_func(params), seq_ij[1], seq_ij[2])
     IN pixels' = st.pixels /\ render' = st.render
  /\ seq_ij' = IF seq_ij[1] + 1 < ImgW THEN <<seq_ij[1] + 1, seq_ij[2]>>
               ELSE <<0, seq_ij[2] + 1>>
  /\ UNCHANGED <<params, nthreads, next_idx, workers, stop, calls, tpc, entry,
                 claimed, touched, bvhVars, clampVars, evalVars, moreVars>>

\* the sequential loops end and trace_samples returns
SeqReturn ==
  /\ tpc = "seq" /\ seq_ij[2] >= ImgH
  /\ tpc' = "returned"
  /\ UNCHANGED <<params, nthreads, pixels, render, next_idx, workers, seq_ij, stop,
                 calls, entry, claimed, touched, bvhVars, clampVars, evalVars, moreVars>>

\* a worker of parallel_for: j = next_idx.fetch_add(1); if (j >= size.y) break
WorkerFetch(w) ==
  /\ tpc = "par" /\ workers[w].pc = "fetch"
  /\ LET f == fetch_add(next_idx)
     IN /\ next_idx' = f.next
        /\ IF f.value >= ImgH
           THEN workers' = [workers EXCEPT ![w].pc = "done"] /\ UNCHANGED claimed
           ELSE /\ workers' = [workers EXCEPT ![w] = [pc |-> "row", i |-> 0, j |-> f.value]]
                /\ claimed' = [claimed EXCEPT ![f.value] = @ \cup {w}]
  /\ UNCHANGED <<params, nthreads, pixels, render, seq_ij, stop, calls, tpc, entry,
                 touched, bvhVars, clampVars, evalVars, moreVars>>

\* a worker of parallel_for: func({i, j}) for the next pixel of its row
WorkerPixel(w) ==
  /\ tpc = "par" /\ workers[w].pc = "row"
  /\ LET ij == <<workers[w].i, workers[w].j>>
         st == sample_pixel_par([pixels |-> pixels, render |-> render], params,
                                get_trace_shader_func(params), ij)
     IN /\ pixels' = st.pixels /\ render' = st.render
        /\ touched' = [touched EXCEPT ![ij] = @ \cup {w}]
  /\ workers' = IF workers[w].i + 1 < ImgW
                THEN [workers EXCEPT ![w].i = @ + 1]
                ELSE [workers EXCEPT ![w].pc = "fetch"]
  /\ UNCHANGED <<params, nthreads, next_idx, seq_ij, stop, calls, tpc, entry,
                 claimed, bvhVars, clampVars, evalVars, moreVars>>

\* parallel_for: every future joined, trace_samples returns
ParallelJoin ==
  /\ tpc = "par"
  /\ \A w \in Threads : w <= nthreads => workers[w].pc = "done"
  /\ tpc' = "returned"
  /\ UNCHANGED <<params, nthreads, pixels, render, next_idx, workers, seq_ij, stop,
                 calls, entry, claimed, touched, bvhVars, clampVars, evalVars, moreVars>>

NextTrace ==
  \/ TraceSamples
  \/ TraceSamplesStop
  \/ SetStop
  \/ SeqPixel
  \/ SeqReturn
  \/ \E w \in Threads : WorkerFetch(w)
  \/ \E w \in Threads : WorkerPixel(w)
  \/ ParallelJoin

SpecTrace == InitTrace /\ [][NextTrace]_vars

\* ------------------------------------------- the clamp of a shader result

InitClamp ==
  /\ BvhIdle /\ TraceIdle /\ EvalIdle /\ MoreIdle
  /\ c_color \in {<<r, g, b, 2>> : r \in 0 .. MaxChan, g \in 0 .. MaxChan, b \in 0 .. MaxChan}
  /\ c_clamp \in Clamps
  /\ c_pixel = [rng |-> 0, accumulated |-> zero4f, samples |-> 0]
  /\ cpc = "init"

\* trace_samples on one pixel, from the shader's result on: the color is
\* clamped and added to the pixel
ClampAccumulate ==
  /\ cpc = "init"
  /\ c_pixel' = accumulate(c_pixel, clamp_color(c_color, c_clamp), c_pixel.rng)
  /\ cpc' = "done"
  /\ UNCHANGED <<c_color, c_clamp, bvhVars, traceVars, evalVars, moreVars>>

NextClamp == ClampAccumulate

SpecClamp == InitClamp /\ [][NextClamp]_vars

\* ---------------------------------------------------- geometry evaluators

\* A read of array[index], the array holding size entries
array_read(array, index, size) == [array |-> array, index |-> index, size |-> size]
in_bounds(read) == 0 <= read.index /\ read.index < read.size

\* shape->triangles[element], then attribute[t.x], attribute[t.y],
\* attribute[t.z]; nothing is known of what follows a read out of bounds
triangle_reads(shape, element, attribute, size) ==
  LET first == array_read("triangles", element, Len(shape.triangles))
  IN IF in_bounds(first)
     THEN LET t == shape.triangles[element + 1]
          IN <<first, array_read(attribute, t[1], size), array_read(attribute, t[2], size),
               array_read(attribute, t[3], size)>>
     ELSE <<first>>

\* the reads of eval_position
eval_position(shape, element) == triangle_reads(shape, element, "positions", shape.positions)

\* the reads of eval_element_normal
eval_element_normal(shape, element) ==
  IF shape.triangles # <<>>
  THEN triangle_reads(shape, element, "positions", shape.positions)
  ELSE IF shape.lines # <<>>
       THEN LET first == array_read("lines", element, Len(shape.lines))
            IN IF in_bounds(first)
               THEN LET l == shape.lines[element + 1]
                    IN <<first, array_read("positions", l[1], shape.positions),
                         array_read("positions", l[2], shape.positions)>>
               ELSE <<first>>
       ELSE <<>>

\* the reads of eval_normal
eval_normal(shape, element) ==
  IF shape.normals = 0 THEN eval_element_normal(shape, element)
  ELSE triangle_reads(shape, element, "normals", shape.normals)

\* the reads of eval_texcoord
eval_texcoord(shape, element) ==
  IF shape.texcoords = 0 THEN <<>>
  ELSE triangle_reads(shape, element, "texcoords", shape.texcoords)

\* The well-formed shapes: one topology, every index within the vertex
\* arrays, normals and texcoords absent or as long as positions.
VertexIds == 0 .. MaxVerts - 1
LineSet == {<<a, a + 1>> : a \in 0 .. MaxVerts - 2}
TriangleSet == {<<a, a + 1, a + 2>> : a \in 0 .. MaxVerts - 3} \cup
               {<<a + 2, a + 1, a>> : a \in 0 .. MaxVerts - 3}
NonEmptySeqUpTo(S, n) == UNION {[1 .. m -> S] : m \in 1 .. n}
WellFormedShapes ==
  LET attrs == {0, MaxVerts}
  IN {[points |-> p, lines |-> <<>>, triangles |-> <<>>, positions |-> MaxVerts,
       normals |-> n, texcoords |-> t] :
        p \in NonEmptySeqUpTo(VertexIds, MaxElems), n \in attrs, t \in attrs}
     \cup
     {[points |-> <<>>, lines |-> l, triangles |-> <<>>, positions |-> MaxVerts,
       normals |-> n, texcoords |-> t] :
        l \in NonEmptySeqUpTo(LineSet, MaxElems), n \in attrs, t \in attrs}
     \cup
     {[points |-> <<>>, lines |-> <<>>, triangles |-> tr, positions |-> MaxVerts,
       normals |-> n, texcoords |-> t] :
        tr \in NonEmptySeqUpTo(TriangleSet, MaxElems), n \in attrs, t \in attrs}

\* the index list of the shape's topology
topology(shape) ==
  IF shape.points # <<>> THEN "points"
  ELSE IF shape.lines # <<>> THEN "lines" ELSE "triangles"
num_elements(shape) == Len(shape.points) + Len(shape.lines) + Len(shape.triangles)

InitEval ==
  /\ BvhIdle /\ TraceIdle /\ ClampIdle /\ MoreIdle
  /\ e_shape \in WellFormedShapes
  /\ e_element \in 0 .. MaxElems - 1
  /\ e_element < num_elements(e_shape)
  /\ e_reads = <<>>
  /\ epc = "init"

EvalPosition ==
  /\ epc = "init"
  /\ e_reads' = eval_position(e_shape, e_element)
  /\ epc' = "position"
  /\ UNCHANGED <<e_shape, e_element, bvhVars, traceVars, clampVars, moreVars>>

EvalNormal ==
  /\ epc = "init"
  /\ e_reads' = eval_normal(e_shape, e_element)
  /\ epc' = "normal"
  /\ UNCHANGED <<e_shape, e_element, bvhVars, traceVars, clampVars, moreVars>>

EvalTexcoord ==
  /\ epc = "init"
  /\ e_reads' = eval_texcoord(e_shape, e_element)
  /\ epc' = "texcoord"
  /\ UNCHANGED <<e_shape, e_element, bvhVars, traceVars, clampVars, moreVars>>

NextEval == EvalPosition \/ EvalNormal \/ EvalTexcoord

SpecEval == InitEval /\ [][NextEval]_vars

\* ------------------------------------------- sampling driver: the claims

\* the render state a sequential pass over pixels k, k + 1, ... leaves
RECURSIVE sequential_pass(_, _, _, _)
sequential_pass(st, prm, shader, k) ==
  IF k >= ImgW * ImgH THEN st
  ELSE sequential_pass(sample_pixel_seq(st, prm, shader, k % ImgW, k \div ImgW),
                       prm, shader, k + 1)

\* C4: when a trace_samples call returns normally, sequential or parallel
\* and whatever the worker-pool size, every pixel's sample count is exactly
\* one more than before the call, and every worker has finished.
C4_OneSamplePerPixel ==
  tpc = "returned" =>
     /\ \A ij \in Pixels : pixels[ij].samples = entry.pixels[ij].samples + 1
     /\ ~params.noparallel => \A w \in Threads : workers[w].pc \in {"done", "off"}

\* C5: in parallel trace_samples each row index is returned by the shared
\* counter to at most one worker, and no pixel is touched by two workers
\* during the same call, under every interleaving.
C5_RowsClaimedOnce ==
  /\ \A r \in Rows : Cardinality(claimed[r]) <= 1
  /\ \A ij \in Pixels : Cardinality(touched[ij]) <= 1
  /\ \A v, w \in Threads :
       (v # w /\ workers[v].pc = "row" /\ workers[w].pc = "row")
          => workers[v].j # workers[w].j

\* a parallel call has returned whose rows were shared out between two workers
C5_Witness ==
  /\ tpc = "returned" /\ ~params.noparallel
  /\ Cardinality(UNION {claimed[r] : r \in Rows}) >= 2
  /\ \A ij \in Pixels : touched[ij] # {}

\* C6: a parallel trace_samples call ends, under every interleaving, in the
\* render state (rng, accumulated, samples, render) a sequential call from
\* the same state and parameters ends in.
C6_ParallelEqualsSequential ==
  (tpc = "returned" /\ ~params.noparallel) =>
     [pixels |-> pixels, render |-> render]
       = sequential_pass([pixels |-> entry.pixels, render |-> entry.render],
                         params, get_trace_shader_func(params), 0)

\* C7: when the stop flag handed to trace_samples is set, workers claim no
\* further rows and unclaimed rows keep their sample counts and sums; so a
\* parallel call entered with the flag already set returns with every
\* pixel as it was.
C7_StopSetBeforeCallKeepsPixels ==
  (tpc = "returned" /\ ~params.noparallel /\ entry.stop = "true") =>
     pixels = entry.pixels /\ render = entry.render

\* C8: a trace_samples call whose shader selector is none of the five ends
\* in a fatal error before any pixel's rng, sum, sample count or output
\* value is modified.
C8_UnknownShaderIsFatal ==
  (params.shader \notin Shaders /\ calls > 0) =>
     /\ tpc = "error"
     /\ pixels = entry.pixels /\ render = entry.render
     /\ pixels = init_state.pixels /\ render = init_state.render

\* a call with an unknown selector has ended in the error
C8_Witness == tpc = "error" /\ params.shader = "invalid" /\ calls = 1

\* -------------------------------------------------- the clamp: the claim

max3(color) == SetMax({color[1], color[2], color[3]})

\* C9: for every positive clamp and shader result (r, g, b, coverage 1) the
\* radiance added to the accumulator is (r, g, b) scaled by
\* min(1, clamp / max(r, g, b)): scaled to a maximum of clamp when the
\* maximum channel exceeds it, unchanged otherwise.
C9_RadianceClampedByMaxChannel ==
  cpc = "done" =>
     \A k \in 1 .. 3 :
        IF max3(c_color) > c_clamp
        THEN c_pixel.accumulated[k] * max3(c_color) = AccScale * c_color[k] * c_clamp
        ELSE c_pixel.accumulated[k] = AccScale * c_color[k]

\* --------------------------------------- geometry evaluators: the claim

\* C10: for a well-formed shape of any topology and an element within the
\* range of its index list, position, normal and texcoord evaluation read
\* only that topology's index list and the vertex attributes, each at an
\* index within bounds.
C10_EvalReadsInBounds ==
  \A k \in 1 .. Len(e_reads) :
     /\ in_bounds(e_reads[k])
     /\ e_reads[k].array \in {topology(e_shape), "positions", "normals", "texcoords"}


\* ---------------------------------------------------------------- textures

\* Largest width and height of an image handed to set_texture.
MaxTexSize == 2
\* Texture coordinates are multiples of 1 / UvDen, from -UvMax / UvDen to
\* UvMax / UvDen in each component.
UvDen == 4
UvMax == 5

\* The encoding arrays, in the order texture_size and lookup_texture try them.
Encodings == <<"colorf", "colorb", "scalarf", "scalarb">>
\* img::image<T>: its size; the pixels are referred to by their coordinates.
Images == {empty_image} \cup {[size |-> <<w, h>>] : w, h \in 1 .. MaxTexSize}
\* img::image::empty(): no pixels, whatever the size says
image_empty(img) == img.size[1] * img.size[2] = 0
UVs == {<<a, b>> : a, b \in -UvMax .. UvMax}
\* a null rtr::texture*
nullptr == [null |-> TRUE]
zero2i == <<0, 0>>

\* set_texture that leaves the other arrays as they are
set_texture_keeps(texture, encoding, img) == [texture EXCEPT ![encoding] = img]

\* set_texture, its four overloads told apart by the encoding of the image
set_texture(texture, encoding, img) ==
  [e \in DOMAIN texture |-> IF e = encoding THEN img ELSE empty_image]

\* Check texture size
texture_size(texture) ==
  IF ~image_empty(texture.colorf) THEN texture.colorf.size
  ELSE IF ~image_empty(texture.colorb) THEN texture.colorb.size
  ELSE IF ~image_empty(texture.scalarf) THEN texture.scalarf.size
  ELSE IF ~image_empty(texture.scalarb) THEN texture.scalarb.size
  ELSE zero2i

\* the constant {1, 1, 1} lookup_texture returns when every array is empty
white == [array |-> "none", ij |-> <<0, 0>>, decode |-> "white"]

\* lookup_texture: the texel read and the decoding applied to it
lookup_texture(texture, ij, ldr_as_linear) ==
  IF ~image_empty(texture.colorf)
  THEN [array |-> "colorf", ij |-> ij, decode |-> "none"]
  ELSE IF ~image_empty(texture.colorb)
  THEN [array |-> "colorb", ij |-> ij,
        decode |-> IF ldr_as_linear THEN "byte_to_float" ELSE "srgb_to_rgb"]
  ELSE IF ~image_empty(texture.scalarf)
  THEN [array |-> "scalarf", ij |-> ij, decode |-> "none"]
  ELSE IF ~image_empty(texture.scalarb)
  THEN [array |-> "scalarb", ij |-> ij,
        decode |-> IF ldr_as_linear THEN "byte_to_float" ELSE "srgb_to_rgb"]
  ELSE white

\* math::fmod(x, 1) of a multiple of 1 / UvDen, in units of 1 / UvDen: the
\* result has the sign of x
fmod1(a) == IF a >= 0 THEN a % UvDen ELSE -((-a) % UvDen)
\* math::clamp
clamp(x, min_, max_) == Min(Max(x, min_), max_)

\* Evaluate a texture.  s, t, u and v are in units of 1 / UvDen and the
\* weights of the blend in units of 1 / UvDen^2.  With size.x or size.y zero
\* the code takes a remainder by zero (modzero); the indices ii and jj are then
\* what a machine whose integer division does not trap leaves: the dividend.
eval_texture(texture, uv, ldr_as_linear) ==
  IF texture = nullptr
  THEN [called |-> TRUE, null |-> TRUE, size |-> zero2i, modzero |-> FALSE,
        returned |-> TRUE, blend |-> << [weight |-> UvDen * UvDen, texel |-> white] >>]
  ELSE LET size == texture_size(texture)
           s0 == fmod1(uv[1]) * size[1]
           t0 == fmod1(uv[2]) * size[2]
           s == IF s0 < 0 THEN s0 + UvDen * size[1] ELSE s0
           t == IF t0 < 0 THEN t0 + UvDen * size[2] ELSE t0
           i == clamp(s \div UvDen, 0, size[1] - 1)
           j == clamp(t \div UvDen, 0, size[2] - 1)
           ii == IF size[1] = 0 THEN i + 1 ELSE (i + 1) % size[1]
           jj == IF size[2] = 0 THEN j + 1 ELSE (j + 1) % size[2]
           u == s - UvDen * i
           v == t - UvDen * j
       IN [called |-> TRUE, null |-> FALSE, size |-> size,
           modzero |-> (size[1] = 0 \/ size[2] = 0),
           returned |-> ~(size[1] = 0 \/ size[2] = 0),
           blend |-> << [weight |-> (UvDen - u) * (UvDen - v),
                         texel |-> lookup_texture(texture, <<i, j>>, ldr_as_linear)],
                        [weight |-> (UvDen - u) * v,
                         texel |-> lookup_texture(texture, <<i, jj>>, ldr_as_linear)],
                        [weight |-> u * (UvDen - v),
                         texel |-> lookup_texture(texture, <<ii, j>>, ldr_as_linear)],
                        [weight |-> u * v,
                         texel |-> lookup_texture(texture, <<ii, jj>>, ldr_as_linear)] >>]

\* --------------------------------------------------------- textures: actions

InitTex == BvhIdle /\ TraceIdle /\ ClampIdle /\ EvalIdle /\ MoreIdle

\* set_texture(texture, img), any of the four overloads.  The sample on record
\* was of the texture as it was, and is dropped.
SetTexture ==
  /\ \E k \in 1 .. Len(Encodings), img \in Images :
       /\ tex' = set_texture(tex, Encodings[k], img)
       /\ last_set' = IF image_empty(img) THEN last_set ELSE Encodings[k]
       /\ replaced' = (replaced \/ \E e \in DOMAIN tex :
                                     e # Encodings[k] /\ ~image_empty(tex[e]))
  /\ t_result' = no_result
  /\ UNCHANGED <<bvhVars, traceVars, clampVars, evalVars, pathVars, splitVars, stackVars>>

\* eval_texture(texture, uv, ldr_as_linear) on a null pointer or on the texture.
\* After a remainder by zero the call either traps or goes on.
EvalTexture ==
  /\ \E texture \in {nullptr, tex}, uv \in UVs, ldr_as_linear \in BOOLEAN :
       LET r == eval_texture(texture, uv, ldr_as_linear)
       IN \E goes_on \in (IF r.modzero THEN BOOLEAN ELSE {TRUE}) :
            t_result' = [r EXCEPT !.returned = goes_on]
  /\ UNCHANGED <<tex, last_set, replaced, bvhVars, traceVars, clampVars, evalVars, pathVars, splitVars, stackVars>>

NextTex == SetTexture \/ EvalTexture

SpecTex == InitTex /\ [][NextTex]_vars

\* --------------------------------------------------------- textures: claims

\* the arrays of the texture that hold pixels
non_empty_arrays == {e \in DOMAIN tex : ~image_empty(tex[e])}

\* whether the blend eval_texture returned is the constant white
returns_white(r) ==
  /\ r.returned
  /\ \A k \in DOMAIN r.blend : r.blend[k].weight = 0 \/ r.blend[k].texel = white
  /\ \E k \in DOMAIN r.blend : r.blend[k].weight = UvDen * UvDen

\* whether every texel the blend reads lies inside the array it is read from
texels_in_range(r) ==
  \A k \in DOMAIN r.blend :
     r.blend[k].texel.array # "none" =>
       /\ r.blend[k].texel.ij[1] \in 0 .. r.size[1] - 1
       /\ r.blend[k].texel.ij[2] \in 0 .. r.size[2] - 1

\* C11: eval_texture of a null texture, and of a texture whose four arrays are
\* all empty, returns the constant white for every uv, takes no remainder by
\* zero and reads no texel out of range.
C11_EmptyTextureIsWhite ==
  (t_result.called /\ (t_result.null \/ non_empty_arrays = {})) =>
     /\ ~t_result.modzero
     /\ returns_white(t_result)
     /\ texels_in_range(t_result)

\* C12: at most one of the four arrays is non-empty, and a non-empty one is the
\* array of the latest set_texture call that had a non-empty image.
C12_OneEncodingAtATime ==
  /\ Cardinality(non_empty_arrays) <= 1
  /\ \A e \in non_empty_arrays : e = last_set

\* a set_texture has replaced a non-empty array of another encoding, and the
\* texture holds pixels
C12_Witness == replaced /\ non_empty_arrays # {}

\* ---------------------------------------------------------- trace_raytrace

\* Largest params.bounces.
MaxBounces == 2

\* The textures of the materials hold one texel, so a sample is that texel
\* whatever the uv; texels and the materials' scalars are in half units
\* (1.0 is 2) and their products in quarter units (1.0 is 4).
black == [null |-> FALSE, texel |-> 0]
gray == [null |-> FALSE, texel |-> 1]
\* eval_texture(texture, texcoord, true).x, and the mean of the three channels
texture_x(texture) == IF texture = nullptr THEN 2 ELSE texture.texel

\* A material as add_material leaves it: no texture, opaque, diffuse.
default_material ==
  [emission_tex |-> nullptr,
   specular |-> 0, specular_tex |-> nullptr,
   metallic |-> 0, metallic_tex |-> nullptr,
   roughness |-> 0, roughness_tex |-> nullptr,
   transmission |-> 0, transmission_tex |-> nullptr,
   opacity |-> 2, opacity_tex |-> nullptr]

\* The materials of the scene, as the setters make them.
Materials ==
  { default_material,
    [default_material EXCEPT !.specular = 2],
    [default_material EXCEPT !.specular = 2, !.specular_tex = gray],
    [default_material EXCEPT !.metallic = 2],
    [default_material EXCEPT !.metallic = 2, !.roughness = 2],
    [default_material EXCEPT !.metallic = 2, !.roughness = 2, !.roughness_tex = black],
    [default_material EXCEPT !.transmission = 2],
    [default_material EXCEPT !.transmission = 2, !.transmission_tex = black],
    [default_material EXCEPT !.transmission = 2, !.emission_tex = black],
    [default_material EXCEPT !.opacity = 1],
    [default_material EXCEPT !.opacity_tex = black] }

\* what intersect_scene_bvh reports to an invocation: a miss, or the material
\* of the object hit
Intersections ==
  {[hit |-> FALSE, material |-> default_material]} \cup
  {[hit |-> TRUE, material |-> m] : m \in Materials}

\* the values rand1f(rng) takes, in quarter units
Rand1f == 0 .. 3

\* "getting all materials": the scalars of the material at the hit
material_scalars(material) ==
  [specular |-> material.specular * texture_x(material.specular_tex),
   metallic |-> material.metallic * texture_x(material.metallic_tex),
   roughness |-> material.roughness * texture_x(material.roughness_tex),
   transmission |-> material.transmission * texture_x(material.emission_tex),
   opacity |-> material.opacity * texture_x(material.opacity_tex)]

no_scalars == [specular |-> 0, metallic |-> 0, roughness |-> 0,
               transmission |-> 0, opacity |-> 0]

\* the reflectance model, by the order of the if / else if chain
reflectance(scalars) ==
  IF scalars.transmission # 0 THEN "dielectric"
  ELSE IF scalars.metallic # 0 /\ scalars.roughness = 0 THEN "polished metal"
  ELSE IF scalars.metallic # 0 /\ scalars.roughness # 0 THEN "rough metal"
  ELSE IF scalars.specular # 0 THEN "plastic"
  ELSE "diffuse"

Reflectances == {"dielectric", "polished metal", "rough metal", "plastic", "diffuse"}

\* an exit test that never holds
enough_bounces_never(bounce, bounces) == FALSE

\* "exit if enough bounces are done"
enough_bounces(bounce, bounces) == bounce >= bounces

\* the bounce argument of the recursive call of the opacity branch
opacity_bounce(bounce) == bounce + 1
\* the bounce argument of the recursive call of each reflectance branch
reflectance_bounce(bounce) == bounce + 1

\* an invocation of trace_raytrace that was just called
trace_raytrace_call(bounce) ==
  [bounce |-> bounce, state |-> "called", hit |-> FALSE,
   material |-> default_material, evaluated |-> FALSE, scalars |-> no_scalars,
   branch |-> "none", calls |-> 0, call_bounce |-> 0, returns |-> "nothing"]

\* trace_raytrace from its entry to its recursive call or, if it makes none, to
\* its return.  intersection is the scene query's result, draw the value of
\* the rand1f of the opacity test.
trace_raytrace(f, bounces, intersection, draw) ==
  IF ~intersection.hit
  THEN [f EXCEPT !.state = "done", !.branch = "environment",
                 !.returns = "environment"]
  ELSE LET g == [f EXCEPT !.hit = TRUE, !.material = intersection.material]
           scalars == material_scalars(intersection.material)
       IN IF enough_bounces(f.bounce, bounces)
          THEN [g EXCEPT !.state = "done", !.branch = "emission",
                         !.returns = "emission"]
          ELSE LET h == [g EXCEPT !.evaluated = TRUE, !.scalars = scalars,
                                  !.state = "waiting", !.calls = 1]
               IN IF scalars.opacity < 4 /\ draw > scalars.opacity
                  THEN [h EXCEPT !.branch = "opacity",
                                 !.call_bounce = opacity_bounce(f.bounce)]
                  ELSE [h EXCEPT !.branch = reflectance(scalars),
                                 !.call_bounce = reflectance_bounce(f.bounce)]

\* the rest of an invocation once its recursive call has returned
trace_raytrace_resume(f) ==
  [f EXCEPT !.state = "done",
            !.returns = IF f.branch = "opacity" THEN "the call's result"
                        ELSE "emission and the call's result weighted"]

\* ------------------------------------------------- trace_raytrace: actions

\* trace_samples calls the shader with bounce 0
InitPath ==
  /\ BvhIdle /\ TraceIdle /\ ClampIdle /\ EvalIdle /\ TexIdle /\ SplitIdle /\ StackIdle
  /\ p_bounces \in 0 .. MaxBounces
  /\ p_stack = <<trace_raytrace_call(0)>>
  /\ ppc = "run"

\* the innermost invocation runs up to its recursive call or to its return
TraceRaytrace ==
  /\ ppc = "run" /\ p_stack # <<>> /\ p_stack[Len(p_stack)].state = "called"
  /\ \E intersection \in Intersections, draw \in Rand1f :
       LET n == Len(p_stack)
           f == trace_raytrace(p_stack[n], p_bounces, intersection, draw)
       IN p_stack' = IF f.state = "waiting"
                     THEN [p_stack EXCEPT ![n] = f] \o <<trace_raytrace_call(f.call_bounce)>>
                     ELSE [p_stack EXCEPT ![n] = f]
  /\ UNCHANGED <<p_bounces, ppc, bvhVars, traceVars, clampVars, evalVars, texVars, splitVars, stackVars>>

\* the innermost invocation returns, and its caller runs on to its own return
TraceRaytraceReturn ==
  /\ ppc = "run" /\ p_stack # <<>> /\ p_stack[Len(p_stack)].state = "done"
  /\ LET n == Len(p_stack)
     IN IF n = 1
        THEN p_stack' = <<>> /\ ppc' = "returned"
        ELSE /\ p_stack' = [SubSeq(p_stack, 1, n - 1) EXCEPT
                              ![n - 1] = trace_raytrace_resume(p_stack[n - 1])]
             /\ UNCHANGED ppc
  /\ UNCHANGED <<p_bounces, bvhVars, traceVars, clampVars, evalVars, texVars, splitVars, stackVars>>

NextPath == TraceRaytrace \/ TraceRaytraceReturn

\* A shader call runs to its end once started: the thread that makes it is
\* not held back by anything.
SpecPath == InitPath /\ [][NextPath]_vars /\ WF_vars(NextPath)

\* -------------------------------------------------- trace_raytrace: claims

\* the invocations whose recursive call is running
callers == 1 .. Len(p_stack) - 1

\* C13: the recursive call of the opacity branch is made with the bounce the
\* invocation was called with, that of each reflectance branch with bounce + 1.
C13_OpacityKeepsBounce ==
  \A k \in callers :
     /\ p_stack[k].branch = "opacity" => p_stack[k + 1].bounce = p_stack[k].bounce
     /\ p_stack[k].branch \in Reflectances =>
          p_stack[k + 1].bounce = p_stack[k].bounce + 1

\* the opacity continuations among the nested invocations
opacity_events == {k \in DOMAIN p_stack : p_stack[k].branch = "opacity"}

\* each invocation makes at most one recursive call, one that hit with
\* bounce >= params.bounces makes none and returns the emission, and the
\* nesting stays within params.bounces + 1 plus the opacity continuations
bounded_recursion ==
  /\ \A k \in DOMAIN p_stack :
       /\ p_stack[k].calls <= 1
       /\ (k \in callers) = (p_stack[k].state = "waiting")
       /\ p_stack[k].state = "waiting" => p_stack[k].calls = 1
       /\ (p_stack[k].hit /\ p_stack[k].bounce >= p_bounces /\
           p_stack[k].state = "done") =>
            p_stack[k].calls = 0 /\ p_stack[k].returns = "emission"
  /\ Len(p_stack) <= p_bounces + 1 + Cardinality(opacity_events)

\* C14: every trace_raytrace call returns, whatever params.bounces >= 0, and
\* until then the recursion is bounded as above.
C14_TraceRaytraceTerminates == []bounded_recursion /\ <>(ppc = "returned")

\* the deepest nesting the bounces allow, cut off at a surface by the exit test
C14_Witness ==
  /\ p_bounces >= 1 /\ Len(p_stack) = p_bounces + 1
  /\ p_stack[Len(p_stack)].returns = "emission"

\* C19: the transmission that picks the dielectric model is the material's
\* transmission times the sample of its transmission texture, and specular,
\* metallic, roughness and opacity are each times the sample of their own.
C19_ScalarsUseOwnTexture ==
  \A k \in DOMAIN p_stack :
     p_stack[k].evaluated =>
       LET m == p_stack[k].material
           sc == p_stack[k].scalars
       IN /\ sc.transmission = m.transmission * texture_x(m.transmission_tex)
          /\ sc.specular = m.specular * texture_x(m.specular_tex)
          /\ sc.metallic = m.metallic * texture_x(m.metallic_tex)
          /\ sc.roughness = m.roughness * texture_x(m.roughness_tex)
          /\ sc.opacity = m.opacity * texture_x(m.opacity_tex)
          /\ p_stack[k].branch \in Reflectances =>
               ((p_stack[k].branch = "dielectric") =
                  (m.transmission * texture_x(m.transmission_tex) # 0))

\* ------------------------------------------------------- the build alone

NextBuild == InitBvhShape \/ InitBvhScene \/ BuildBvhStep \/ BuildBvhEnd

SpecBuild == InitBvh /\ [][NextBuild]_vars

\* build_bvh is about to take a range off the queue
at_range == bpc = "build" /\ build.queue # <<>>
\* that range, and the node it is for
next_nodeid == Head(build.queue)[1]
next_start == Head(build.queue)[2]
next_end == Head(build.queue)[3]

\* whether the centers of the primitives of [start, end) all coincide
zero_extent(primitives, start, end) ==
  /\ start < end
  /\ \A i, j \in start .. end - 1 : primitives[i + 1].center = primitives[j + 1].center

\* the split of every range of more than 4 primitives falls strictly inside
\* it, and every range queued for a child is non-empty
split_inside ==
  /\ (at_range /\ next_end - next_start > 4) =>
        LET sp == split_middle(build.primitives, next_start, next_end)
        IN next_start < sp.mid /\ sp.mid < next_end
  /\ \A k \in DOMAIN build.queue :
        build.queue[k][1] # 0 => build.queue[k][2] < build.queue[k][3]

\* the iteration of build_bvh's loop that takes the next range
takes_range == at_range /\ bpc' = "build" /\ build' = build_bvh_step(build)

\* The work the queue stands for: a range of n >= 1 primitives counts 2n - 1,
\* the nodes of the largest tree it can still grow into, an empty one counts 1.
RECURSIVE queued_work(_)
queued_work(queue) ==
  IF queue = <<>> THEN 0
  ELSE LET n == Head(queue)[3] - Head(queue)[2]
       IN (IF n = 0 THEN 1 ELSE 2 * n - 1) + queued_work(Tail(queue))

\* C15: build_bvh terminates for every primitive list, coinciding centers
\* included: every split of a range of more than 4 primitives gives a mid with
\* start < mid < end, so both child ranges are non-empty and smaller than the
\* parent, and every iteration of the loop leaves less work on the queue, which
\* therefore empties.
C15_BuildTerminates ==
  /\ []split_inside
  /\ [][takes_range => queued_work(build'.queue) < queued_work(build.queue)]_vars

\* a finished tree over more than 4 primitives whose centers all coincide
C15_Witness ==
  /\ bpc = "ready" /\ Len(build.primitives) > 4
  /\ zero_extent(build.primitives, 0, Len(build.primitives))
  /\ Cardinality(leaves) >= 2

\* C17 as stated: a range whose centers all coincide becomes a leaf whatever
\* its size, as a range of at most 4 primitives does.
C17_ZeroExtentIsLeaf ==
  [][(takes_range /\ (zero_extent(build.primitives, next_start, next_end)
                      \/ next_end - next_start <= 4)) =>
       ~build'.nodes[next_nodeid + 1].internal]_vars

\* C17 as the code has it: a range becomes a leaf exactly when it holds at
\* most 4 primitives; a larger range whose centers all coincide becomes an
\* internal node whose children take [start, mid) and [mid, end) with
\* mid = (start + end) / 2.
C17_LeafIffSmall ==
  [][takes_range =>
       /\ build'.nodes[next_nodeid + 1].internal = (next_end - next_start > 4)
       /\ (zero_extent(build.primitives, next_start, next_end) /\
           next_end - next_start > 4) =>
            LET n == Len(build'.queue)
                mid == (next_start + next_end) \div 2
            IN /\ build'.queue[n - 1] = <<Len(build.nodes), next_start, mid>>
               /\ build'.queue[n] = <<Len(build.nodes) + 1, mid, next_end>>
               /\ build'.primitives = build.primitives]_vars

\* the root of more than 4 primitives with one center has just been split
C17_Witness ==
  /\ bpc = "build" /\ Len(build.nodes) = 3 /\ build.nodes[1].internal
  /\ zero_extent(build.primitives, 0, Len(build.primitives))
  /\ Len(build.queue) = 2

\* ------------------------------------------------------ find_any queries

\* C20 as stated: in find_any mode a shape-level or scene-level query
\* returns immediately upon the first hit; once a primitive test (at scene
\* level, an instance's shape query) has reported a hit, no further
\* primitive, instance or node is tested before the query returns hit = true.
C20_FindAnyReturnsAtFirstHit ==
  (bpc \in {"walk", "done"} /\ query.find_any /\ walk.hit) =>
     /\ bpc = "done"
     /\ walk.late_tests = 0 /\ walk.late_nodes = 0

\* C20 as the code has it: in find_any mode a query returns hit = true at
\* the end of the leaf in which the first hit is found; the primitives (at
\* scene level the instances) that remain in that leaf may still be
\* tested, fewer than bvh_max_prims of them at each level, and no further
\* node of the tree being traversed is popped.
C20_FindAnyReturnsAfterLeaf ==
  (bpc \in {"walk", "done"} /\ query.find_any /\ walk.hit) =>
     /\ bpc = "done"
     /\ walk.late_nodes = 0
     /\ walk.late_tests < bvh_max_prims * (IF level = "scene" THEN bvh_max_prims ELSE 1)

\* a find_any query that returned a hit from a tree with an internal node
\* after testing more primitives in the leaf of the hit and leaving nodes
\* on the stack
C20_Witness ==
  /\ bpc = "done" /\ query.find_any /\ walk.hit /\ tree_has_internal
  /\ walk.late_tests > 0 /\ walk.node_stack # <<>>

\* ------------------------------------------------- split_middle on its own

\* The coordinates of the centers handed to split_middle are 0 .. MaxCoord.
MaxCoord == 3
\* build_bvh calls split_middle on ranges of more than bvh_max_prims
\* primitives: bvh_max_prims of them at the origin and up to MaxSplitFree
\* anywhere.
MaxSplitFree == 1

SplitCenters == {<<x, y, z>> : x, y, z \in 0 .. MaxCoord}

\* the bvh_primitive list of primitives with the given centers
center_primitives(centers) ==
  [i \in 1 .. Len(centers) |->
     [bbox |-> [min |-> centers[i], max |-> centers[i]],
      center |-> vadd(centers[i], centers[i]), primitive |-> i - 1]]

InitSplit ==
  /\ BvhIdle /\ TraceIdle /\ ClampIdle /\ EvalIdle /\ TexIdle /\ PathIdle /\ StackIdle
  /\ \E free \in NonEmptySeqUpTo(SplitCenters, MaxSplitFree) :
       sp_primitives = center_primitives([i \in 1 .. bvh_max_prims |-> zero3f] \o free)
  /\ sp_split = no_split
  /\ spc = "init"

\* split_middle(primitives, 0, primitives.size())
SplitMiddle ==
  /\ spc = "init"
  /\ sp_split' = split_middle(sp_primitives, 0, Len(sp_primitives))
  /\ spc' = "done"
  /\ UNCHANGED <<sp_primitives, bvhVars, traceVars, clampVars, evalVars, texVars, pathVars, stackVars>>

NextSplit == SplitMiddle

SpecSplit == InitSplit /\ [][NextSplit]_vars

\* the extent of the box of the centers handed to split_middle
centers_extent ==
  LET cs == {sp_primitives[i].center : i \in DOMAIN sp_primitives}
  IN [k \in Axes |-> SetMax({c[k] : c \in cs}) - SetMin({c[k] : c \in cs})]
\* the axes (0, 1, 2) on which that extent is largest
largest_axes == {k - 1 : k \in {k \in Axes : \A l \in Axes : centers_extent[k] >= centers_extent[l]}}

\* C18 as stated: the split axis is an axis of largest extent, and among
\* axes that tie for the largest it is x before y before z.
C18_AxisPriorityXYZ ==
  spc = "done" => sp_split.axis = SetMin(largest_axes)

\* C18 as the code has it: the split axis is an axis of largest extent; when
\* axes tie for the largest and the extent is not zero, it is z before y
\* before x (z on an x/z, y/z or three-way tie, y on an x/y tie); when the
\* extent is zero on all three axes it is x.
C18_AxisPriorityZYX ==
  spc = "done" =>
     /\ sp_split.axis \in largest_axes
     /\ sp_split.axis = IF centers_extent = zero3f THEN 0 ELSE SetMax(largest_axes)

\* a split of centers whose extent is largest on x and on another axis
C18_Witness ==
  /\ spc = "done" /\ centers_extent # zero3f
  /\ 0 \in largest_axes /\ Cardinality(largest_axes) >= 2

\* ------------------------------------------- trees deeper than node_stack

\* int node_stack[128]
node_stack_size == 128

\* Most points of a shape laid along the x axis.
MaxChain == 133

\* The points lie at x(0) = 0 and x(j) = 2^(j - 100) * (1 + j / 256) for
\* j >= 1, with y = z = 0 and radius 0: each x(j) is a float, and
\* x(j - 1) < x(j) / 2.  Integers of the width at hand cannot hold these
\* values, so a coordinate is kept as its index j on this scale; the order of
\* the indices is the order of the values, 0 is 0, and -j stands for -x(j).
chain_position(j) == <<j, 0, 0>>

\* init_bvh(shape) for the point list 0, 1, ..., n - 1 on these positions:
\* bbox = point_bounds(x(j), 0), center = center(bbox) = x(j)
chain_primitives(n) ==
  [i \in 1 .. n |->
     [bbox |-> point_bounds(chain_position(i - 1), 0),
      center |-> chain_position(i - 1), primitive |-> i - 1]]

\* split_middle on the scale.  The middle of centers that span x(lo) ..
\* x(hi), lo < hi, is center(cbbox) = (x(lo) + x(hi)) / 2, which lies in
\* [x(hi) / 2, x(hi)) whatever the rounding of the sum, hence above x(hi - 1)
\* and below x(hi): on the scale it is hi - 1/2, and twice it is 2 * hi - 1.
chain_split_middle(primitives, start, end) ==
  LET mid0 == (start + end) \div 2
      cs == {primitives[i + 1].center : i \in start .. end - 1}
      cmin == [k \in Axes |-> SetMin({c[k] : c \in cs})]
      cmax == [k \in Axes |-> SetMax({c[k] : c \in cs})]
      csize == vsub(cmax, cmin)
      axis == split_axis(csize)
      part == partition(primitives, start, end, axis, 2 * cmax[axis + 1] - 1)
  IN IF csize = zero3f THEN [primitives |-> primitives, mid |-> mid0, axis |-> 0]
     ELSE IF part.mid = start \/ part.mid = end
          THEN [primitives |-> part.seq, mid |-> (start + end) \div 2, axis |-> axis]
          ELSE [primitives |-> part.seq, mid |-> part.mid, axis |-> axis]

\* One iteration of build_bvh's loop over the work queue, on the scale.
chain_build_step(b) ==
  LET next == Head(b.queue)
      nodeid == next[1]
      start == next[2]
      end == next[3]
      bbox == range_bbox(b.primitives, start, end)
  IN IF end - start > bvh_max_prims
     THEN LET sp == chain_split_middle(b.primitives, start, end)
              first == Len(b.nodes)
              node == [bbox |-> bbox, start |-> first, num |-> 2,
                       axis |-> sp.axis, internal |-> TRUE]
          IN [nodes |-> [b.nodes EXCEPT ![nodeid + 1] = node] \o <<bvh_node, bvh_node>>,
              primitives |-> sp.primitives,
              queue |-> Tail(b.queue) \o
                        << <<first, start, sp.mid>>, <<first + 1, sp.mid, end>> >>]
     ELSE [nodes |-> [b.nodes EXCEPT ![nodeid + 1] =
                        [@ EXCEPT !.bbox = bbox, !.internal = FALSE,
                                  !.num = end - start, !.start = start]],
           primitives |-> b.primitives,
           queue |-> Tail(b.queue)]

RECURSIVE chain_build_run(_)
chain_build_run(b) == IF b.queue = <<>> THEN b ELSE chain_build_run(chain_build_step(b))

\* init_bvh(shape) for n points on the scale
init_bvh_chain(n) == bvh_tree(chain_build_run(build_bvh_begin(chain_primitives(n))))

\* Rays from the origin, where point 0 lies, with no zero component in the
\* direction: every quantity intersect_bbox and intersect_point compare is 0
\* or a positive multiple of one x(j), so the tests come out on the scale as
\* they do on the values.
ChainRays ==
  { [o |-> zero3f, d |-> <<1, 1, 1>>, tmin |-> 0, tmax |-> flt_max],
    [o |-> zero3f, d |-> <<-1, -1, -1>>, tmin |-> 0, tmax |-> flt_max] }

\* the loop over the points of a leaf, from idx to last - 1
RECURSIVE chain_leaf_points(_, _, _, _)
chain_leaf_points(bvh, w, idx, last) ==
  IF idx >= last THEN w
  ELSE LET prim == bvh.primitives[idx + 1]
           r == intersect_point(w.ray, chain_position(prim), 0)
       IN chain_leaf_points(bvh,
                            IF r.hit THEN record_hit(count_test(w), prim, r.dist)
                            ELSE count_test(w),
                            idx + 1, last)

\* one iteration of intersect_shape_bvh's loop; the pushes are made whatever
\* node_cur is, so node_stack here is what the code wrote, inside the array
\* and past its end
chain_walk_step(bvh, w, find_any) ==
  LET n == Len(w.node_stack)
      rest == SubSeq(w.node_stack, 1, n - 1)
      node == bvh.nodes[w.node_stack[n] + 1]
      w0 == [count_node(w) EXCEPT !.node_stack = rest]
  IN IF ~intersect_bbox(w.ray, node.bbox)
     THEN [w0 EXCEPT !.done = (rest = <<>>)]
     ELSE LET w1 == IF node.internal
                    THEN [w0 EXCEPT !.node_stack = push_children(rest, node, w.ray)]
                    ELSE chain_leaf_points(bvh, w0, node.start, node.start + node.num)
          IN [w1 EXCEPT !.done = walk_returns(w1, find_any)]

\* whether the pushes of the iteration wrote past node_stack[127]
writes_past_end(w) == Len(w.node_stack) > node_stack_size

\* init_bvh(shape), then intersect_shape_bvh up to its loop
InitStack ==
  /\ BvhIdle /\ TraceIdle /\ ClampIdle /\ EvalIdle /\ TexIdle /\ PathIdle /\ SplitIdle
  /\ \E n \in (MaxChain - 2) .. MaxChain : ch_tree = init_bvh_chain(n)
  /\ \E ray \in ChainRays, find_any \in BOOLEAN : ch_query = [ray |-> ray, find_any |-> find_any]
  /\ ch_walk = shape_walk_begin(ch_tree, ch_query.ray, -1, flt_max)
  /\ chpc = "walk"

\* intersect_shape_bvh: one node popped.  A write past the end of node_stack
\* is undefined: the memory after the array takes it and the loop goes on,
\* or the program does anything else.
StackWalkStep ==
  /\ chpc = "walk"
  /\ ch_walk' = chain_walk_step(ch_tree, ch_walk, ch_query.find_any)
  /\ \E goes_on \in BOOLEAN :
       chpc' = IF writes_past_end(ch_walk') /\ ~goes_on THEN "undefined"
               ELSE IF ch_walk'.done THEN "done" ELSE "walk"
  /\ UNCHANGED <<ch_tree, ch_query, bvhVars, traceVars, clampVars, evalVars, texVars, pathVars, splitVars>>

NextStack == StackWalkStep

SpecStack == InitStack /\ [][NextStack]_vars

\* C16: for every tree build_bvh can produce and every ray, the node stack
\* of the traversal never holds more than 128 entries: no node index is
\* written past node_stack[127].
C16_NodeStackWithinArray ==
  Len(ch_walk.node_stack) <= node_stack_size


====
